---- MODULE Spec2Model ----
(***************************************************************************)
(* A model of the two scripts of unglish/word-generator:                   *)
(*                                                                         *)
(*   scripts/sample-cmu-words.py  draws a seeded sample of eligible        *)
(*                                entries of the CMU dictionary;           *)
(*   scripts/run-baseline.py      runs the sampler and the external        *)
(*                                scoring engine once per seed and prints  *)
(*                                order statistics of one metric column.   *)
(*                                                                         *)
(* Strings the code takes apart (words, ARPABET symbols) are sequences of  *)
(* one-character strings; strings it only compares stay TLA+ strings.      *)
(***************************************************************************)
EXTENDS Integers, Sequences, FiniteSets, TLC

\* ------------------------------------------------------------------ bounds
\* Longest dictionary (number of entries) the sampler is run on.
MaxDict == 3
\* Most data lines the scoring engine writes after the header.
MaxRows == 2
\* Longest symbol sequence strip_stress is applied to in SpecStrip.
MaxPhones == 2
\* Size of the state space of the pseudorandom generator of the model.
RngMod == 16
\* The sample size of sample-cmu-words.py:35 (100 there), scaled down so that
\* pools both smaller and larger than it are enumerable.
SampleSize == 2

\* ------------------------------------------------- characters and strings
Digits == {"0", "1", "2", "3", "4", "5", "6", "7", "8", "9"}
Alpha == {"a", "b", "c", "d", "e", "g", "h", "i", "m", "n", "o", "r", "s", "t"}
StressChars == {"0", "1", "2"}

\* str.isdigit() of a one-character string
isdigit(c) == c \in Digits

\* str.isalpha(): every character alphabetic and at least one character
isalpha(word) == Len(word) > 0 /\ \A k \in 1..Len(word) : word[k] \in Alpha

\* str.rstrip(chars): drop trailing characters while they are in chars
RECURSIVE rstrip(_, _)
rstrip(p, chars) ==
    IF Len(p) > 0 /\ p[Len(p)] \in chars
    THEN rstrip(SubSeq(p, 1, Len(p) - 1), chars)
    ELSE p

\* " ".join(phones): the symbols' characters with one space between symbols
RECURSIVE join(_)
join(phones) ==
    IF Len(phones) = 0 THEN <<>>
    ELSE IF Len(phones) = 1 THEN phones[1]
    ELSE phones[1] \o <<" ">> \o join(Tail(phones))

\* ----------------------------------------------------- sample-cmu-words.py
\* count_syllables: the number of symbols whose last character is a digit
count_syllables(phones) ==
    Cardinality({k \in 1..Len(phones) : isdigit(phones[k][Len(phones[k])])})

\* a slip of strip_stress: only one trailing stress character is removed
strip_stress_one(phones) ==
    [k \in 1..Len(phones) |->
        IF Len(phones[k]) > 0 /\ phones[k][Len(phones[k])] \in StressChars
        THEN SubSeq(phones[k], 1, Len(phones[k]) - 1)
        ELSE phones[k]]

\* strip_stress: rstrip('012') of every symbol
strip_stress(phones) == [k \in 1..Len(phones) |-> rstrip(phones[k], StressChars)]

\* ARPABET symbols of the dictionary: consonants carry no digit, vowels end in
\* their stress digit 0, 1 or 2 (the only digits cmudict uses).
K == <<"K">>
T == <<"T">>
D == <<"D">>
G == <<"G">>
M == <<"M">>
S == <<"S">>
HH == <<"H", "H">>
AE1 == <<"A", "E", "1">>
AO1 == <<"A", "O", "1">>
AH0 == <<"A", "H", "0">>
IH1 == <<"I", "H", "1">>
IY2 == <<"I", "Y", "2">>
EH1 == <<"E", "H", "1">>

\* The entries a dictionary of the model is built from: cmudict.dict() maps a
\* word to the non-empty list of its pronunciations.
EntryList == <<
    [word |-> <<"c", "a", "t">>, pronunciations |-> << <<K, AE1, T>> >>],
    [word |-> <<"h", "m">>, pronunciations |-> << <<HH, M>> >>],
    [word |-> <<"d", "o", "g">>, pronunciations |-> << <<D, AO1, G>> >>],
    [word |-> <<"a", "m", "e", "n", "i", "t", "i">>,
     pronunciations |-> << <<AH0, M, EH1, AH0, T, IY2>> >>],
    [word |-> <<"o", "m", "e", "n", "i", "t", "i", "e">>,
     pronunciations |-> << <<AO1, M, EH1, AH0, T, IY2, AH0>> >>],
    [word |-> <<"r", "e", "a", "d">>,
     pronunciations |-> << <<D, EH1, D>>, <<D, IY2, D>> >>],
    [word |-> <<"i", "t", "'", "s">>, pronunciations |-> << <<IH1, T, S>> >>] >>

Entries == {EntryList[k] : k \in 1..Len(EntryList)}

\* Dictionaries: a dict keeps insertion order and has one entry per word.
Dicts ==
    UNION {{q \in [1..n -> Entries] :
              \A a, b \in 1..n : a # b => q[a].word # q[b].word} : n \in 0..MaxDict}

\* lines 28-32 with the bound on the syllable count widened by one
eligible_upto5(entry) ==
    /\ Len(entry.pronunciations) = 1
    /\ LET syls == count_syllables(entry.pronunciations[1])
       IN 1 <= syls /\ syls <= 5 /\ isalpha(entry.word)

\* lines 28-32: the filter of the candidate loop
eligible(entry) ==
    /\ Len(entry.pronunciations) = 1
    /\ LET syls == count_syllables(entry.pronunciations[1])
       IN 1 <= syls /\ syls <= 4 /\ isalpha(entry.word)

\* lines 26-33: the candidate list, in the order of d.items()
RECURSIVE build_candidates(_)
build_candidates(d) ==
    IF Len(d) = 0 THEN <<>>
    ELSE (IF eligible(d[1])
          THEN << <<d[1].word, strip_stress(d[1].pronunciations[1])>> >>
          ELSE <<>>) \o build_candidates(Tail(d))

\* random.seed(seed) left out: the generator keeps the state it was born with
seed_rng_skipped(old, seed) == old

\* random.seed(seed): the generator's state becomes a function of seed alone
seed_rng(old, seed) == seed % RngMod

\* one step of the generator
rng_next(state) == (5 * state + 3) % RngMod

\* the generator's draw below m, from its current state
randbelow(state, m) == state % m

\* min(100, len(candidates))
sample_size(n) == IF SampleSize < n THEN SampleSize ELSE n

\* random.sample's selection loop over a copy of the population: the i-th
\* pick is pool[j] for j drawn below the number m of live slots, and the last
\* live slot moves into the hole.
RECURSIVE sample_loop(_, _, _, _)
sample_loop(state, pool, m, k) ==
    IF k = 0 THEN <<>>
    ELSE LET j == randbelow(state, m) + 1
         IN <<pool[j]>> \o
            sample_loop(rng_next(state), [pool EXCEPT ![j] = pool[m]], m - 1, k - 1)

\* random.sample(population, k) for k <= len(population)
random_sample(state, population, k) ==
    sample_loop(state, population, Len(population), k)

\* lines 37-42: the JSON objects written to standard output
to_results(smp) ==
    [k \in 1..Len(smp) |-> [word |-> smp[k][1], arpabet |-> join(smp[k][2])]]

\* line 20: the seed argument, 42 when absent
seed_of(args) == IF Len(args) > 0 THEN args[1] ELSE 42

\* the generator's state after k draws
RECURSIVE rng_after(_, _)
rng_after(state, k) == IF k = 0 THEN state ELSE rng_after(rng_next(state), k - 1)

\* -------------------------------------------------------------------- state
VARIABLES
    d,              \* the pronunciation dictionary, cmudict.dict()
    \* sample-cmu-words.py, one copy of its variables per invocation
    argv,           \* the command-line arguments after the script name
    rng,            \* the state of the module-level generator of random
    candidates,     \* the candidate list
    sample,         \* the result of random.sample
    results,        \* what the invocation wrote to standard output
    spc,            \* each invocation's position in main()
    \* run-baseline.py
    pc,             \* the position in the body of the loop over seeds
    seedNo,         \* the index of the current seed in seeds
    arpabet_words,  \* the transcriptions of the current sample
    files,          \* the temporary files on disk: path -> content
    engine,         \* how the last engine invocation ended
    scores,         \* the list scores
    summary,        \* the statistics of the last printed summary line
    stdout,         \* the seeds of the summary lines printed so far
    err,            \* the uncaught exception that ended the run, if any
    \* strip_stress applied on its own
    phones,         \* a symbol sequence
    once,           \* strip_stress(phones)
    twice,          \* strip_stress(strip_stress(phones))
    tpc             \* how often strip_stress has been applied

samplerVars == <<argv, rng, candidates, sample, results, spc>>
runVars == <<pc, seedNo, arpabet_words, files, engine, scores, summary, stdout, err>>
stripVars == <<phones, once, twice, tpc>>
vars == <<d, samplerVars, runVars, stripVars>>

\* The two invocations of the sampler that are compared.
Procs == {1, 2}
\* Argument lists an invocation is started with: none, or one seed.
Argvs == {<<>>, <<42>>, <<123>>}
\* States the generator of a fresh interpreter may be in (seeded from the
\* operating system's entropy at import).
Entropy == {0, 7}

NoSummary == [seed |-> 0, n |-> 0]

SamplerIdle ==
    /\ argv = [p \in Procs |-> <<>>]
    /\ rng = [p \in Procs |-> 0]
    /\ candidates = [p \in Procs |-> <<>>]
    /\ sample = [p \in Procs |-> <<>>]
    /\ results = [p \in Procs |-> <<>>]
    /\ spc = [p \in Procs |-> "off"]

RunIdle ==
    /\ pc = "off"
    /\ seedNo = 0
    /\ arpabet_words = <<>>
    /\ files = {}
    /\ engine = "none"
    /\ scores = <<>>
    /\ summary = NoSummary
    /\ stdout = <<>>
    /\ err = "none"

StripIdle ==
    /\ phones = <<>>
    /\ once = <<>>
    /\ twice = <<>>
    /\ tpc = "off"

\* ------------------------------------------ sample-cmu-words.py as a process
InitSampler ==
    /\ d \in Dicts
    /\ argv \in [Procs -> Argvs]
    /\ rng \in [Procs -> Entropy]
    /\ candidates = [p \in Procs |-> <<>>]
    /\ sample = [p \in Procs |-> <<>>]
    /\ results = [p \in Procs |-> <<>>]
    /\ spc = [p \in Procs |-> "seed"]
    /\ RunIdle
    /\ StripIdle

\* lines 20-21
SeedGenerator(p) ==
    /\ spc[p] = "seed"
    /\ rng' = [rng EXCEPT ![p] = seed_rng(rng[p], seed_of(argv[p]))]
    /\ spc' = [spc EXCEPT ![p] = "filter"]
    /\ UNCHANGED <<d, argv, candidates, sample, results, runVars, stripVars>>

\* lines 23-33
Filter(p) ==
    /\ spc[p] = "filter"
    /\ candidates' = [candidates EXCEPT ![p] = build_candidates(d)]
    /\ spc' = [spc EXCEPT ![p] = "sample"]
    /\ UNCHANGED <<d, argv, rng, sample, results, runVars, stripVars>>

\* line 35: random.sample raises ValueError when asked for more than there is
Sample(p) ==
    /\ spc[p] = "sample"
    /\ LET k == sample_size(Len(candidates[p]))
       IN IF k > Len(candidates[p])
          THEN /\ spc' = [spc EXCEPT ![p] = "ValueError"]
               /\ UNCHANGED <<rng, sample>>
          ELSE /\ sample' = [sample EXCEPT ![p] = random_sample(rng[p], candidates[p], k)]
               /\ rng' = [rng EXCEPT ![p] = rng_after(rng[p], k)]
               /\ spc' = [spc EXCEPT ![p] = "emit"]
    /\ UNCHANGED <<d, argv, candidates, results, runVars, stripVars>>

\* lines 37-45
Emit(p) ==
    /\ spc[p] = "emit"
    /\ results' = [results EXCEPT ![p] = to_results(sample[p])]
    /\ spc' = [spc EXCEPT ![p] = "done"]
    /\ UNCHANGED <<d, argv, rng, candidates, sample, runVars, stripVars>>

NextSampler ==
    \E p \in Procs : SeedGenerator(p) \/ Filter(p) \/ Sample(p) \/ Emit(p)

SpecSampler == InitSampler /\ [][NextSampler]_vars

\* ------------------------------------------------ strip_stress on its own
\* Symbols strip_stress is tried on: ARPABET symbols, and strings with two
\* trailing stress digits, a trailing or inner digit that is no stress digit,
\* a leading digit, digits only, and the empty string.
Symbols == {
    K, AH0, AE1, IY2,
    <<"A", "1", "2">>, <<"A", "3">>, <<"A", "0", "3">>, <<"1", "K">>, <<"0">>,
    <<>>}

SymbolSeqs == UNION {[1..n -> Symbols] : n \in 0..MaxPhones}

InitStrip ==
    /\ phones \in SymbolSeqs
    /\ once = <<>>
    /\ twice = <<>>
    /\ tpc = "start"
    /\ d = <<>>
    /\ SamplerIdle
    /\ RunIdle

StripOnce ==
    /\ tpc = "start"
    /\ once' = strip_stress(phones)
    /\ tpc' = "once"
    /\ UNCHANGED <<d, samplerVars, runVars, phones, twice>>

StripAgain ==
    /\ tpc = "once"
    /\ twice' = strip_stress(once)
    /\ tpc' = "twice"
    /\ UNCHANGED <<d, samplerVars, runVars, phones, once>>

NextStrip == StripOnce \/ StripAgain

SpecStrip == InitStrip /\ [][NextStrip]_vars

\* ------------------------------------------------------------ run-baseline.py
\* line 13
seeds == <<42, 123, 456, 789, 1337>>

\* line 46
score_col ==
    "ngram_n2_pos_none_bound_both_smooth_laplace_weight_none_prob_conditional_agg_prod"

\* lines 25-26: the paths of the temporary files of a seed
input_path(seed) == <<".tmp-baseline-", seed, ".csv">>
output_path(seed) == <<".tmp-baseline-", seed, "-out.csv">>

\* The disk is a set of files, one per path.
exists(fs, path) == \E f \in fs : f.path = path
read(fs, path) == (CHOOSE f \in fs : f.path = path).content
write(fs, path, content) ==
    {f \in fs : f.path # path} \cup {[path |-> path, content |-> content]}

\* os.remove left out
remove_skipped(fs, path) == fs

\* os.remove(path)
remove(fs, path) == {f \in fs : f.path # path}

\* Python floats: a finite value or NaN; every comparison with NaN is false.
Float(v) == [nan |-> FALSE, v |-> v]
NaN == [nan |-> TRUE, v |-> 0]
lt(a, b) == ~a.nan /\ ~b.nan /\ a.v < b.v
le(a, b) == ~a.nan /\ ~b.nan /\ a.v <= b.v
add(a, b) == IF a.nan \/ b.nan THEN NaN ELSE Float(a.v + b.v)

\* float(text) succeeds on numerals and on "nan", and raises ValueError otherwise
is_float(text) == text \in {"1", "2", "nan"}
float(text) ==
    CASE text = "1" -> Float(1)
      [] text = "2" -> Float(2)
      [] text = "nan" -> NaN

\* A text file is the sequence of its lines; a line of the engine's output is
\* the sequence of its comma-separated fields, the blank line having the one
\* field "".
BlankLine == <<"">>
Headers == {<<"word", score_col>>, <<"word", "other_metric">>}
Rows == {<<"w", "1">>, <<"w", "2">>, <<"w", "nan">>, <<"w", "abc">>, <<"w">>, BlankLine}

\* What the engine may leave in the output file: nothing at all, or a header
\* followed by data lines.
EngineOutputs ==
    {<<>>} \cup
    UNION {{<<h>> \o rows : h \in Headers, rows \in [1..n -> Rows]} : n \in 0..MaxRows}

\* line 29: '\n'.join(arpabet_words) + '\n'
input_text(words) == IF Len(words) = 0 THEN << <<>> >> ELSE words

\* line 43: f.read().strip().split('\n'); of an all-blank text one empty line is left
RECURSIVE strip_text(_)
strip_text(text) ==
    IF Len(text) = 0 THEN <<BlankLine>>
    ELSE IF text[Len(text)] = BlankLine THEN strip_text(SubSeq(text, 1, Len(text) - 1))
    ELSE IF text[1] = BlankLine THEN strip_text(Tail(text))
    ELSE text

\* line 47: headers.index(score_col), 1-based here; 0 stands for ValueError
index_of(headers, col) ==
    IF \E k \in 1..Len(headers) : headers[k] = col
    THEN CHOOSE k \in 1..Len(headers) :
             headers[k] = col /\ \A m \in 1..(k - 1) : headers[m] # col
    ELSE 0

\* line 49: the data lines the comprehension keeps
RECURSIVE data_lines(_)
data_lines(lines) ==
    IF Len(lines) = 0 THEN <<>>
    ELSE (IF lines[1] # BlankLine THEN <<lines[1]>> ELSE <<>>) \o data_lines(Tail(lines))

\* line 49: the exception the comprehension raises, at the first line it fails on
RECURSIVE extract_error(_, _)
extract_error(rows, idx) ==
    IF Len(rows) = 0 THEN "none"
    ELSE IF Len(rows[1]) < idx THEN "IndexError"
    ELSE IF ~is_float(rows[1][idx]) THEN "ValueError"
    ELSE extract_error(Tail(rows), idx)

\* line 49: the values of the comprehension when nothing is raised
extract(rows, idx) == [k \in 1..Len(rows) |-> float(rows[k][idx])]

\* line 50: list.sort() compares with < only.  It leaves a permutation of the
\* list in which no element is less than its predecessor; for values without
\* NaN that is the one ascending arrangement, and with NaN the arrangement
\* depends on the interpreter's merge strategy.
sort_outcomes(xs) ==
    {ys \in {[k \in 1..Len(xs) |-> xs[f[k]]] :
                f \in {g \in [1..Len(xs) -> 1..Len(xs)] :
                          \A a, b \in 1..Len(xs) : a # b => g[a] # g[b]}} :
        \A k \in 1..(Len(ys) - 1) : ~lt(ys[k + 1], ys[k])}

\* line 52: sum(scores)
RECURSIVE sum(_)
sum(xs) == IF Len(xs) = 0 THEN Float(0) ELSE add(xs[1], sum(Tail(xs)))

\* the lower middle element
median_lower(sorted) == sorted[((Len(sorted) - 1) \div 2) + 1]

\* line 53: scores[len(scores)//2]
median_of(sorted) == sorted[(Len(sorted) \div 2) + 1]

\* line 54: scores[0]
min_of(sorted) == sorted[1]

\* line 55: scores[-1]
max_of(sorted) == sorted[Len(sorted)]

\* What a sampler that died before printing leaves on its standard output.
NoOutput == [printed |-> FALSE, json |-> <<>>]

\* lines 17-20: what the sampler invoked with a seed prints, given the state
\* its generator is born with
sampler_stdout(dict, seed, entropy) ==
    LET pool == build_candidates(dict)
        k == sample_size(Len(pool))
    IN IF k > Len(pool) THEN NoOutput
       ELSE [printed |-> TRUE,
             json |-> to_results(random_sample(seed_rng(entropy, seed), pool, k))]

\* The dictionaries the variance run is tried on.
RunDicts == {SubSeq(EntryList, 1, n) : n \in 0..MaxDict}

Init ==
    /\ d \in RunDicts
    /\ pc = "sample"
    /\ seedNo = 1
    /\ arpabet_words = <<>>
    /\ files = {}
    /\ engine = "none"
    /\ scores = <<>>
    /\ summary = NoSummary
    /\ stdout = <<>>
    /\ err = "none"
    /\ SamplerIdle
    /\ StripIdle

\* An uncaught exception ends the interpreter: nothing of the loop runs after it.
Abort(exception) ==
    /\ pc' = "aborted"
    /\ err' = exception

\* lines 17-22: run the sampler and decode its output.  A sampler that fails
\* prints nothing, and json.loads('') raises.
SampleSeed ==
    /\ pc = "sample"
    /\ \E entropy \in Entropy, started \in BOOLEAN :
           LET out == IF started THEN sampler_stdout(d, seeds[seedNo], entropy)
                      ELSE NoOutput
           IN IF ~out.printed
              THEN /\ Abort("JSONDecodeError")
                   /\ UNCHANGED arpabet_words
              ELSE /\ arpabet_words' = [k \in 1..Len(out.json) |-> out.json[k].arpabet]
                   /\ pc' = "write"
                   /\ UNCHANGED err
    /\ UNCHANGED <<d, samplerVars, stripVars, seedNo, files, engine, scores, summary, stdout>>

\* lines 25-29
WriteInput ==
    /\ pc = "write"
    /\ files' = write(files, input_path(seeds[seedNo]), input_text(arpabet_words))
    /\ pc' = "score"
    /\ UNCHANGED <<d, samplerVars, stripVars, seedNo, arpabet_words, engine, scores,
                   summary, stdout, err>>

\* lines 32-39: locate the corpus and run the engine.  The import or the
\* launch may fail; the engine may be killed at the timeout, having written
\* any part of its output; or it returns, whatever its exit status, with or
\* without an output file.
Score ==
    /\ pc = "score"
    /\ \/ /\ \E exception \in {"ModuleNotFoundError", "FileNotFoundError"} :
                 Abort(exception)
          /\ UNCHANGED <<files, engine>>
       \/ /\ engine' = "timeout"
          /\ Abort("TimeoutExpired")
          /\ \/ UNCHANGED files
             \/ \E out \in EngineOutputs :
                    files' = write(files, output_path(seeds[seedNo]), out)
       \/ /\ engine' = "returned"
          /\ pc' = "parse"
          /\ UNCHANGED err
          /\ \/ UNCHANGED files
             \/ \E out \in EngineOutputs :
                    files' = write(files, output_path(seeds[seedNo]), out)
    /\ UNCHANGED <<d, samplerVars, stripVars, seedNo, arpabet_words, scores, summary, stdout>>

\* lines 42-57: read the output, pick the metric column, sort its values and
\* print the summary line
Parse ==
    /\ pc = "parse"
    /\ IF ~exists(files, output_path(seeds[seedNo]))
       THEN Abort("FileNotFoundError") /\ UNCHANGED <<scores, summary, stdout>>
       ELSE
        LET lines == strip_text(read(files, output_path(seeds[seedNo])))
            headers == lines[1]
            idx == index_of(headers, score_col)
            rows == data_lines(Tail(lines))
        IN IF idx = 0
           THEN Abort("ValueError") /\ UNCHANGED <<scores, summary, stdout>>
           ELSE IF extract_error(rows, idx) # "none"
           THEN Abort(extract_error(rows, idx)) /\ UNCHANGED <<scores, summary, stdout>>
           ELSE \E sorted \in sort_outcomes(extract(rows, idx)) :
                    /\ scores' = sorted
                    /\ IF Len(sorted) = 0
                       THEN Abort("ZeroDivisionError") /\ UNCHANGED <<summary, stdout>>
                       ELSE /\ summary' = [seed |-> seeds[seedNo],
                                           mean |-> [sum |-> sum(sorted), n |-> Len(sorted)],
                                           median |-> median_of(sorted),
                                           min_s |-> min_of(sorted),
                                           max_s |-> max_of(sorted),
                                           n |-> Len(sorted)]
                            /\ stdout' = Append(stdout, seeds[seedNo])
                            /\ pc' = "cleanup"
                            /\ UNCHANGED err
    /\ UNCHANGED <<d, samplerVars, stripVars, seedNo, arpabet_words, files, engine>>

\* lines 60-61, and the loop's step to the next seed
Cleanup ==
    /\ pc = "cleanup"
    /\ files' = remove(remove(files, input_path(seeds[seedNo])), output_path(seeds[seedNo]))
    /\ IF seedNo < Len(seeds)
       THEN seedNo' = seedNo + 1 /\ pc' = "sample"
       ELSE pc' = "done" /\ UNCHANGED seedNo
    /\ UNCHANGED <<d, samplerVars, stripVars, arpabet_words, engine, scores, summary,
                   stdout, err>>

Next == SampleSeed \/ WriteInput \/ Score \/ Parse \/ Cleanup

Spec == Init /\ [][Next]_vars

\* ------------------------------------------------------------------ claims
Sampled(p) == spc[p] \in {"emit", "done"}
PastSampling(p) == spc[p] \in {"emit", "done", "ValueError"}
Min(a, b) == IF a < b THEN a ELSE b

\* C4: sampling from an empty candidate pool fails instead of returning an
\* empty sample, and sampling from a non-empty pool never fails and returns
\* min(size, pool size) candidates.
C4_EmptyPoolFails ==
    \A p \in Procs :
        PastSampling(p) =>
            IF candidates[p] = <<>>
            THEN ~Sampled(p)
            ELSE Sampled(p) /\ Len(sample[p]) = Min(SampleSize, Len(candidates[p]))

\* What the sampler does instead: it never fails; from every pool, the empty
\* one included, it returns min(size, pool size) distinct candidates of the
\* pool, so the empty pool yields the empty sample and an empty JSON array.
SamplerNeverFails ==
    \A p \in Procs :
        PastSampling(p) =>
            /\ Sampled(p)
            /\ Len(sample[p]) = Min(SampleSize, Len(candidates[p]))
            /\ \A a \in 1..Len(sample[p]) :
                   /\ \E c \in 1..Len(candidates[p]) : sample[p][a] = candidates[p][c]
                   /\ \A b \in 1..Len(sample[p]) : a # b => sample[p][a] # sample[p][b]
            /\ (candidates[p] = <<>> /\ spc[p] = "done") => results[p] = <<>>

\* an invocation over a dictionary without eligible entries has ended normally
\* with an empty sample
EmptySampleReturned ==
    \E p \in Procs :
        /\ spc[p] = "done"
        /\ Len(d) > 0
        /\ candidates[p] = <<>>
        /\ sample[p] = <<>>

\* C5: two invocations given the same seed and the same candidate pool in the
\* same order select the same sample in the same order and print the same
\* output, whatever state their generators started in.
C5_Deterministic ==
    \A p, q \in Procs :
        (/\ Sampled(p)
         /\ Sampled(q)
         /\ seed_of(argv[p]) = seed_of(argv[q])
         /\ candidates[p] = candidates[q]) =>
            /\ sample[p] = sample[q]
            /\ (spc[p] = "done" /\ spc[q] = "done") => results[p] = results[q]

\* both invocations ended, one with the seed 42 given and one with it defaulted,
\* on a pool the sample does not exhaust
C5_Witness ==
    /\ spc[1] = "done"
    /\ spc[2] = "done"
    /\ argv[1] = <<>>
    /\ argv[2] = <<42>>
    /\ Len(candidates[1]) > SampleSize
    /\ Len(results[1]) = SampleSize
    /\ results[1] = results[2]

\* the number of symbols of a variant that end in a stress digit 0, 1 or 2
StressCount(variant) ==
    Cardinality({k \in 1..Len(variant) :
                    Len(variant[k]) > 0 /\ variant[k][Len(variant[k])] \in StressChars})

Qualifies(entry) ==
    /\ Len(entry.pronunciations) = 1
    /\ StressCount(entry.pronunciations[1]) \in 1..4
    /\ Len(entry.word) > 0
    /\ \A k \in 1..Len(entry.word) : entry.word[k] \in Alpha

InPool(p, entry) ==
    \E c \in 1..Len(candidates[p]) : candidates[p][c][1] = entry.word

FromQualifying(item) ==
    \E j \in 1..Len(d) : d[j].word = item[1] /\ Qualifies(d[j])

\* C6: an entry is in the candidate pool iff it has exactly one variant, the
\* variant has 1 to 4 symbols ending in a stress digit (counted on the
\* unstripped symbols) and the word is alphabetic; every candidate and every
\* sampled element comes from such an entry.
C6_Eligibility ==
    \A p \in Procs :
        /\ spc[p] \in {"sample", "emit", "done"} =>
               /\ \A j \in 1..Len(d) : InPool(p, d[j]) <=> Qualifies(d[j])
               /\ \A c \in 1..Len(candidates[p]) : FromQualifying(candidates[p][c])
        /\ Sampled(p) =>
               \A a \in 1..Len(sample[p]) : FromQualifying(sample[p][a])

\* a four-syllable entry was admitted and sampled while a five-syllable entry
\* and an entry without vowel of the same dictionary were left out
C6_Witness ==
    \E p \in Procs :
        /\ spc[p] = "done"
        /\ \E a \in 1..Len(sample[p]) : \E j \in 1..Len(d) :
               /\ d[j].word = sample[p][a][1]
               /\ StressCount(d[j].pronunciations[1]) = 4
        /\ \E j \in 1..Len(d) :
               StressCount(d[j].pronunciations[1]) = 5 /\ ~InPool(p, d[j])
        /\ \E j \in 1..Len(d) :
               StressCount(d[j].pronunciations[1]) = 0 /\ ~InPool(p, d[j])

\* C8: strip_stress keeps the length and order of the sequence; each result
\* symbol is the symbol without its whole run of trailing 0, 1, 2 characters
\* (so a symbol not ending in one of them is unchanged); and stripping the
\* result again changes nothing.
C8_StripStress ==
    /\ tpc \in {"once", "twice"} =>
           /\ Len(once) = Len(phones)
           /\ \A k \in 1..Len(phones) :
                  /\ Len(once[k]) <= Len(phones[k])
                  /\ once[k] = SubSeq(phones[k], 1, Len(once[k]))
                  /\ \A c \in (Len(once[k]) + 1)..Len(phones[k]) :
                         phones[k][c] \in StressChars
                  /\ Len(once[k]) > 0 => once[k][Len(once[k])] \notin StressChars
    /\ tpc = "twice" => twice = once

\* a sequence holding a symbol with two trailing stress digits and a symbol
\* ending in a digit that is no stress digit has been stripped twice
C8_Witness ==
    /\ tpc = "twice"
    /\ \E k \in 1..Len(phones) : phones[k] = <<"A", "1", "2">> /\ twice[k] = <<"A">>
    /\ \E k \in 1..Len(phones) : phones[k] = <<"A", "3">> /\ twice[k] = <<"A", "3">>

Ended == pc \in {"done", "aborted"}
CurrentSeed == seeds[seedNo]

\* C1: a failure while sampling or scoring one seed does not abort the run:
\* the run ends only after the last seed of the list has had its turn.
C1_NoAbort == Ended => seedNo = Len(seeds)

\* C2: the temporary files of a seed are deleted on every exit path of its
\* iteration, so none is on disk between iterations or after the run has
\* ended, normally or by a timeout or a parsing failure.
C2_NoOrphans == (Ended \/ pc = "sample") => files = {}

\* C3: a summary is printed only for an engine output with exactly as many
\* data rows as lines were written to the engine's input file (an empty sample
\* writes one empty line, which is counted in the claim's favour).
C3_RowCount ==
    pc = "cleanup" => summary.n = Len(read(files, input_path(CurrentSeed)))

\* The metric values of the data rows of the output file of the current seed.
OutputLines == strip_text(read(files, output_path(CurrentSeed)))
MetricIndex == index_of(OutputLines[1], score_col)
MetricValues == extract(data_lines(Tail(OutputLines)), MetricIndex)
Count(xs, v) == Cardinality({k \in 1..Len(xs) : xs[k] = v})
HasNaN(xs) == \E k \in 1..Len(xs) : xs[k].nan

\* C7: the printed count is the number n of extracted values; the printed
\* median, min and max are the elements at index floor(n/2), 0 and n-1 of the
\* sorted values, which are the extracted values rearranged with no descent;
\* for values that are all comparable the min is the least, the max the
\* greatest, and the median the upper median: at most floor(n/2) values lie
\* below it and at least floor(n/2)+1 are not above it.
C7_OrderStatistics ==
    pc = "cleanup" =>
        LET n == Len(MetricValues)
        IN /\ n >= 1
           /\ summary.n = n
           /\ Len(scores) = n
           /\ \A k \in 1..n : Count(scores, scores[k]) = Count(MetricValues, scores[k])
           /\ \A k \in 1..(n - 1) : ~lt(scores[k + 1], scores[k])
           /\ summary.median = scores[(n \div 2) + 1]
           /\ summary.min_s = scores[1]
           /\ summary.max_s = scores[n]
           /\ ~HasNaN(MetricValues) =>
                  /\ \A k \in 1..n : le(summary.min_s, MetricValues[k])
                  /\ \A k \in 1..n : le(MetricValues[k], summary.max_s)
                  /\ Cardinality({k \in 1..n : lt(MetricValues[k], summary.median)})
                         <= n \div 2
                  /\ Cardinality({k \in 1..n : le(MetricValues[k], summary.median)})
                         >= (n \div 2) + 1

\* a summary of two different values was printed: its median is the larger one
C7_Witness ==
    /\ pc = "cleanup"
    /\ summary.n = 2
    /\ summary.min_s = Float(1)
    /\ summary.max_s = Float(2)
    /\ summary.median = Float(2)

\* C9: summary lines appear in the order of the seed list without gaps; only
\* the current seed has temporary files; and the loop moves to the next seed
\* only from the end of an iteration that has printed its summary, leaving no
\* temporary file behind.
C9_Sequential ==
    /\ [](/\ stdout = SubSeq(seeds, 1, Len(stdout))
          /\ Len(stdout) \in {seedNo - 1, seedNo}
          /\ \A f \in files : f.path[2] = CurrentSeed)
    /\ [][seedNo' # seedNo =>
            /\ seedNo' = seedNo + 1
            /\ pc = "cleanup"
            /\ pc' = "sample"
            /\ Len(stdout) = seedNo
            /\ files' = {}]_vars

\* the last seed is being scored after every earlier seed printed its summary
C9_Witness ==
    /\ seedNo = Len(seeds)
    /\ pc = "parse"
    /\ stdout = SubSeq(seeds, 1, Len(seeds) - 1)
    /\ Cardinality(files) = 2

\* the conditions under which C10 lets a summary line be printed
C10_Printable ==
    /\ engine = "returned"
    /\ exists(files, output_path(CurrentSeed))
    /\ MetricIndex # 0
    /\ \E k \in 2..Len(OutputLines) :
           /\ Len(OutputLines[k]) >= MetricIndex
           /\ is_float(OutputLines[k][MetricIndex])
    /\ summary.seed = CurrentSeed
    /\ summary.n >= 1

\* C10: a summary is printed only if the engine returned, the header has the
\* metric column and some data row parsed; every printed summary has n >= 1
\* and min <= median <= max.
C10_SummaryOrdered ==
    pc = "cleanup" =>
        /\ C10_Printable
        /\ le(summary.min_s, summary.median)
        /\ le(summary.median, summary.max_s)

\* What holds of every printed summary: the conditions of printing, and
\* min <= median <= max when none of its values is NaN (float accepts the text
\* "nan").
SummaryOrderedUnlessNaN ==
    pc = "cleanup" =>
        /\ C10_Printable
        /\ ~HasNaN(scores) =>
               /\ le(summary.min_s, summary.median)
               /\ le(summary.median, summary.max_s)

\* the engine returned for the second seed and a summary of two comparable,
\* different values was printed for it
OrderedSummaryPrinted ==
    /\ pc = "cleanup"
    /\ seedNo = 2
    /\ engine = "returned"
    /\ summary.seed = seeds[2]
    /\ summary.n = 2
    /\ ~HasNaN(scores)
    /\ lt(summary.min_s, summary.max_s)

====
